---- MODULE Spec2Model ----
(***************************************************************************)
(* State-machine model of snake.js: Point, Pellet, Snake and its two       *)
(* subclasses (RandomGrowthSnake, ImpatientSnake) and Game.                *)
(*                                                                         *)
(* A Point is the record [x, y]; a Pellet is the record [pt] holding a     *)
(* Point.  The snake object is the record `snake`; the Game object is the  *)
(* variables food, numFood and timerId.  The browser is the two variables  *)
(* intervals (the interval timers that are still scheduled) and listeners  *)
(* (the registered keydown listeners).  moves and keys count down the      *)
(* moving ticks and the key events a game is still run for.  `last` is a   *)
(* history variable: the last operation, nextDir as it was before it, and  *)
(* the values tick computed on the way (its locals), so that they can be   *)
(* named in state predicates.                                              *)
(***************************************************************************)
EXTENDS Integers, Sequences, FiniteSets, TLC

VARIABLES snake, food, numFood, timerId, intervals, listeners, moves, keys,
          last

vars == <<snake, food, numFood, timerId, intervals, listeners, moves, keys,
          last>>

(***************************************************************************)
(* Program constants.                                                      *)
(***************************************************************************)
WIDTH == 30
HEIGHT == 30
MAX_SNAKE_GROWTH == 6
sameMoves == 8
defaultNumFood == 3

(***************************************************************************)
(* Bounds of the model.                                                    *)
(*   LongGame  - moving ticks of the ImpatientSnake game (more than        *)
(*               sameMoves, so that randomMove is reached)                 *)
(*   ShortGame - moving ticks of the other games                           *)
(*   FewKeys, ManyKeys - key events of a game                              *)
(*   RandCells - Math.random() is sampled so that Point.newRandom returns  *)
(*               one of the first RandCells cells of the two-column strip  *)
(*               that starts at RandOrigin                                 *)
(*   Margin    - how far outside the grid the starts of InitAnywhere reach *)
(*   Probe     - moving ticks of a game of InitAnywhere                    *)
(*   Reach     - the starts of InitStraight are at most Reach moves from   *)
(*               the wall they head for                                    *)
(***************************************************************************)
LongGame == 9
ShortGame == 6
FewKeys == 2
ManyKeys == 3
RandCells == 2
Margin == 2
Probe == 1
Reach == 3

Dirs == {"left", "right", "up", "down"}
Undefined == "undefined"
Null == "null"

(* The games of the model: class, start and heading the snake is          *)
(* constructed with, and the moving ticks and key events the game is run   *)
(* for.  The script builds snake1, an ImpatientSnake at (20,20) heading    *)
(* right; the start next to the wall makes the wall reachable in two moves.*)
Classes == {"Snake", "RandomGrowthSnake", "ImpatientSnake"}
Configs ==
    {<<"ImpatientSnake", <<20, 20>>, "right", LongGame, FewKeys>>,
     <<"Snake", <<20, 20>>, "right", ShortGame, ManyKeys>>,
     <<"RandomGrowthSnake", <<20, 20>>, "right", ShortGame, FewKeys>>,
     <<"Snake", <<28, 20>>, "right", ShortGame, FewKeys>>}
RandOrigin == <<22, 20>>

keymap == [ArrowLeft |-> "left", ArrowRight |-> "right",
           ArrowUp |-> "up", ArrowDown |-> "down"]
Keys == DOMAIN keymap \cup {"q"}

(***************************************************************************)
(* Point                                                                   *)
(***************************************************************************)
Point(x, y) == [x |-> x, y |-> y]

(* obj.f for an object that may lack the property: the set holding the     *)
(* value, or the empty set for undefined.  JS === on two such reads is     *)
(* equality of the sets.                                                   *)
Prop(obj, f) == IF f \in DOMAIN obj THEN {obj[f]} ELSE {}

(* randRange(low, hi) = low + floor(random * (hi - low)): low .. hi-1 *)
randRange(low, hi) == low..(hi - 1)

(* The cells the sampled Math.random() makes Point.newRandom return *)
Sampled(x, y) ==
    \E k \in 0..(RandCells - 1) :
        x = RandOrigin[1] + (k % 2) /\ y = RandOrigin[2] + (k \div 2)

PointNewRandom ==
    {p \in {Point(x, y) : x \in randRange(1, WIDTH), y \in randRange(1, HEIGHT)} :
        Sampled(p.x, p.y)}

(* isOutOfBound with the ring taken for part of the board (< for <=) *)
isOutOfBoundStrict(pt) ==
    pt.x < 0 \/ pt.x > WIDTH \/ pt.y < 0 \/ pt.y > HEIGHT

isOutOfBound(pt) ==
    pt.x <= 0 \/ pt.x >= WIDTH \/ pt.y <= 0 \/ pt.y >= HEIGHT

(***************************************************************************)
(* Pellet                                                                  *)
(***************************************************************************)
Pellet(x, y) == [pt |-> Point(x, y)]

PelletNewRandom == {Pellet(p.x, p.y) : p \in PointNewRandom}

(***************************************************************************)
(* Snake                                                                   *)
(***************************************************************************)
NewSnake(class, start, dir) ==
    [class |-> class,
     parts |-> <<start>>,
     dir |-> dir,
     nextDir |-> dir,
     growBy |-> 0,
     pastMoves |-> IF class = "ImpatientSnake" THEN <<dir>> ELSE <<>>]

(* parts.some(me => me.x === pt.x && me.y === pt.y); pt is whatever object *)
(* the caller passes.                                                      *)
contains(s, pt) ==
    \E i \in DOMAIN s.parts :
        /\ {s.parts[i].x} = Prop(pt, "x")
        /\ {s.parts[i].y} = Prop(pt, "y")

head(s) == s.parts[1]

checkCrashIntoWall(s) == isOutOfBound(head(s))

(* checkCrashIntoSelf leaving the tail out (slice(1, -1)) *)
checkCrashIntoSelfButTail(s) ==
    LET snakeBody == SubSeq(s.parts, 2, Len(s.parts) - 1)
    IN \E i \in DOMAIN snakeBody :
           snakeBody[i].x = head(s).x /\ snakeBody[i].y = head(s).y

checkCrashIntoSelf(s) ==
    LET snakeBody == SubSeq(s.parts, 2, Len(s.parts))
    IN \E i \in DOMAIN snakeBody :
           snakeBody[i].x = head(s).x /\ snakeBody[i].y = head(s).y

(* checkIsNinetyDegree refusing only the heading itself *)
checkIsNotSameDir(s, nextDir) == nextDir \in Dirs /\ nextDir # s.dir

(* checkIsNinetyDegree comparing with the pending heading instead of dir *)
checkIsNinetyDegreeOfNextDir(s, nextDir) ==
    IF s.nextDir \in {"left", "right"} THEN nextDir \in {"up", "down"}
    ELSE IF s.nextDir \in {"up", "down"} THEN nextDir \in {"left", "right"}
    ELSE FALSE

checkIsNinetyDegree(s, nextDir) ==
    IF s.dir \in {"left", "right"} THEN nextDir \in {"up", "down"}
    ELSE IF s.dir \in {"up", "down"} THEN nextDir \in {"left", "right"}
    ELSE FALSE

(* changeDir turning the snake at once *)
changeDirNow(s, dir) == [s EXCEPT !.nextDir = dir, !.dir = dir]

changeDir(s, dir) == [s EXCEPT !.nextDir = dir]

(* handleKey without the ninety-degree check *)
handleKeyAnyMapped(s, key) ==
    LET direction == IF key \in DOMAIN keymap THEN keymap[key] ELSE Undefined
    IN IF direction # Undefined THEN changeDir(s, direction) ELSE s

handleKey(s, key) ==
    LET direction == IF key \in DOMAIN keymap THEN keymap[key] ELSE Undefined
    IN IF direction # Undefined /\ checkIsNinetyDegree(s, direction)
       THEN changeDir(s, direction)
       ELSE s

(* ImpatientSnake.checkPastMovesAllSame *)
checkPastMovesAllSame(s) ==
    LET start == Len(s.pastMoves) - sameMoves
        pastEightMoves == SubSeq(s.pastMoves, start + 1, Len(s.pastMoves))
    IN \A i \in DOMAIN pastEightMoves : pastEightMoves[i] = pastEightMoves[1]

(* randomMove without its branch for up and down: randomDir stays null *)
randomMoveHorizontalOnly(nextDir, r) ==
    IF nextDir \in {"left", "right"} THEN (IF r = 1 THEN "up" ELSE "down")
    ELSE Null

(* ImpatientSnake.randomMove; r is 1 + floor(random * 2) *)
randomMove(nextDir, r) ==
    IF nextDir \in {"left", "right"} THEN (IF r = 1 THEN "up" ELSE "down")
    ELSE IF nextDir \in {"up", "down"} THEN (IF r = 1 THEN "left" ELSE "right")
    ELSE Null

(* Does ImpatientSnake.determineNextMove call randomMove? *)
isBored(s) ==
    /\ s.class = "ImpatientSnake"
    /\ Len(s.pastMoves) >= sameMoves
    /\ checkPastMovesAllSame(s)

(* Snake.determineNextMove and its override in ImpatientSnake *)
determineNextMove(s, r) ==
    IF s.class = "ImpatientSnake"
    THEN LET s1 == IF isBored(s)
                   THEN [s EXCEPT !.nextDir = randomMove(s.nextDir, r)]
                   ELSE s
             s2 == [s1 EXCEPT !.dir = s1.nextDir]
         IN [s2 EXCEPT !.pastMoves = Append(s2.pastMoves, s2.dir)]
    ELSE [s EXCEPT !.dir = s.nextDir]

NewHead(dir, h) ==
    IF dir = "left" THEN Point(h.x - 1, h.y)
    ELSE IF dir = "right" THEN Point(h.x + 1, h.y)
    ELSE IF dir = "up" THEN Point(h.x, h.y - 1)
    ELSE Point(h.x, h.y + 1)

(* move taking one off growBy also when it is 0 (the else left out) *)
moveAlwaysDecrements(s, r) ==
    LET h == head(s)
        s1 == determineNextMove(s, r)
        pt == NewHead(s1.dir, h)
        grown == <<pt>> \o s1.parts
    IN IF s1.growBy = 0
       THEN [s1 EXCEPT !.parts = SubSeq(grown, 1, Len(grown) - 1),
                       !.growBy = s1.growBy - 1]
       ELSE [s1 EXCEPT !.parts = grown, !.growBy = s1.growBy - 1]

(* move dropping the tail also while growing *)
moveAlwaysPops(s, r) ==
    LET h == head(s)
        s1 == determineNextMove(s, r)
        pt == NewHead(s1.dir, h)
        grown == <<pt>> \o s1.parts
        popped == SubSeq(grown, 1, Len(grown) - 1)
    IN IF s1.growBy = 0
       THEN [s1 EXCEPT !.parts = popped]
       ELSE [s1 EXCEPT !.parts = popped, !.growBy = s1.growBy - 1]

move(s, r) ==
    LET h == head(s)
        s1 == determineNextMove(s, r)
        pt == NewHead(s1.dir, h)
        grown == <<pt>> \o s1.parts
    IN IF s1.growBy = 0
       THEN [s1 EXCEPT !.parts = SubSeq(grown, 1, Len(grown) - 1)]
       ELSE [s1 EXCEPT !.parts = grown, !.growBy = s1.growBy - 1]

(* growSnakeBy of the base class adding 1 *)
growSnakeByOne(s, g) ==
    IF s.class = "RandomGrowthSnake"
    THEN [s EXCEPT !.growBy = s.growBy + g]
    ELSE [s EXCEPT !.growBy = s.growBy + 1]

(* Snake.growSnakeBy and its override in RandomGrowthSnake; g is           *)
(* floor(random * MAX_SNAKE_GROWTH)                                        *)
growSnakeBy(s, g) ==
    IF s.class = "RandomGrowthSnake"
    THEN [s EXCEPT !.growBy = s.growBy + g]
    ELSE [s EXCEPT !.growBy = s.growBy + 2]

(* food.find(f => f.pt.x === head.x && f.pt.y === head.y): the set holding *)
(* the first pellet at the head, empty for undefined                       *)
findPellet(s, fd) ==
    LET hits == {i \in DOMAIN fd :
                    fd[i].pt.x = head(s).x /\ fd[i].pt.y = head(s).y}
    IN IF hits = {} THEN {}
       ELSE {fd[CHOOSE i \in hits : \A j \in hits : i <= j]}

eats(s, fd, g) ==
    IF findPellet(s, fd) # {} THEN growSnakeBy(s, g) ELSE s

(***************************************************************************)
(* Game                                                                    *)
(***************************************************************************)
isPelletOnSnake(s, pellet) == contains(s, pellet)

RECURSIVE Filter(_, _)
Filter(fd, pellet) ==
    IF fd = <<>> THEN <<>>
    ELSE LET f == Head(fd)
             rest == Filter(Tail(fd), pellet)
         IN IF f.pt.x # pellet.pt.x /\ f.pt.y # pellet.pt.y
            THEN <<f>> \o rest
            ELSE rest

removeFood(fd, pellet) == Filter(fd, pellet)

(* refillFood pushing one pellet at most (if for while) *)
refillFoodOnce(s, fd, n) ==
    LET passing == {p \in PelletNewRandom : isPelletOnSnake(s, p) = FALSE}
        need == IF Len(fd) < n THEN 1 ELSE 0
    IN [1..need -> passing]

(* The sequences of pellets refillFood can push: every candidate that      *)
(* isPelletOnSnake rejects is drawn again, so the pushed ones are any      *)
(* numFood - length candidates that pass.                                  *)
refillFood(s, fd, n) ==
    LET passing == {p \in PelletNewRandom : isPelletOnSnake(s, p) = FALSE}
        need == IF Len(fd) < n THEN n - Len(fd) ELSE 0
    IN [1..need -> passing]

(***************************************************************************)
(* The browser: interval timers and keydown listeners                      *)
(***************************************************************************)
(* The handle window.setInterval returns to start. *)
IntervalId == "interval#1"

(* A registered listener is the pair of its target and its function.       *)
(* start registers the function keyListener.bind(this) on the document;    *)
(* tick names the method this.keyListener on the window.                   *)
KeyListenerBound == [target |-> "document", fn |-> "keyListener.bind(this)"]
KeyListenerUnbound == [target |-> "window", fn |-> "keyListener"]

(* clearInterval handed a handle that is none of the scheduled timers *)
clearIntervalOther(ivs, id) == ivs \ {Null}

clearInterval(ivs, id) == ivs \ {id}

removeEventListener(ls, l) == ls \ {l}

(* The locals of the last tick, when the last operation was no tick. *)
NoTick == [isDead |-> FALSE, pellet |-> {}, kept |-> <<>>, added |-> <<>>,
           bored |-> FALSE, growBy |-> 0]

Init ==
    /\ \E c \in Configs :
           /\ snake = NewSnake(c[1], Point(c[2][1], c[2][2]), c[3])
           /\ moves = c[4]
           /\ keys = c[5]
    /\ food = <<>>
    /\ numFood = defaultNumFood
    /\ timerId = Null
    /\ intervals = {}
    /\ listeners = {}
    /\ last = [op |-> "new", key |-> Null, nextDir |-> Null, tick |-> NoTick]

(* Game.start: the script calls it once. *)
start ==
    /\ timerId = Null
    /\ listeners' = listeners \cup {KeyListenerBound}
    /\ timerId' = IntervalId
    /\ intervals' = intervals \cup {IntervalId}
    /\ last' = [op |-> "start", key |-> Null, nextDir |-> snake.nextDir,
                tick |-> NoTick]
    /\ UNCHANGED <<snake, food, numFood, moves, keys>>

(* A keydown event: it is dispatched at the document and bubbles to the    *)
(* window, and runs Game.keyListener for a listener registered on either;  *)
(* the listener calls snake.handleKey(evt.key).                            *)
keyListener(key) ==
    /\ listeners # {}
    /\ keys > 0
    /\ keys' = keys - 1
    /\ snake' = handleKey(snake, key)
    /\ last' = [op |-> "keyListener", key |-> key, nextDir |-> snake.nextDir,
                tick |-> NoTick]
    /\ UNCHANGED <<food, numFood, timerId, intervals, listeners, moves>>

(* The values of the Math.random() calls one tick makes: randomMove draws  *)
(* 1 or 2 when it is called, RandomGrowthSnake.growSnakeBy draws           *)
(* 0 .. MAX_SNAKE_GROWTH - 1 when it is called; no call, one dummy value.  *)
RandomMoveDraws(s) == IF isBored(s) THEN 1..2 ELSE {1}

RandomGrowthDraws(s, fd) ==
    IF s.class = "RandomGrowthSnake" /\ findPellet(s, fd) # {}
    THEN 0..(MAX_SNAKE_GROWTH - 1)
    ELSE {0}

(* endGame clearing no timer (a handle other than timerId) *)
endGameKeepsTimer ==
    /\ intervals' = intervals
    /\ listeners' = removeEventListener(listeners, KeyListenerUnbound)
    /\ last' = [op |-> "tick", key |-> Null, nextDir |-> snake.nextDir,
                tick |-> [NoTick EXCEPT !.isDead = TRUE]]
    /\ UNCHANGED <<snake, food, numFood, timerId, moves, keys>>

(* Game.tick when isDead: the game is over. *)
endGame ==
    /\ intervals' = clearInterval(intervals, timerId)
    /\ listeners' = removeEventListener(listeners, KeyListenerUnbound)
    /\ last' = [op |-> "tick", key |-> Null, nextDir |-> snake.nextDir,
                tick |-> [NoTick EXCEPT !.isDead = TRUE]]
    /\ UNCHANGED <<snake, food, numFood, timerId, moves, keys>>

(* advance that checks for the crash again after the move and ends the     *)
(* game in the tick of the fatal move                                      *)
advanceThenCheck ==
    /\ moves > 0
    /\ moves' = moves - 1
    /\ \E r \in RandomMoveDraws(snake) :
       \E g \in RandomGrowthDraws(move(snake, r), food) :
         LET moved == move(snake, r)
             pellet == findPellet(moved, food)
             ate == eats(moved, food, g)
             kept == IF pellet # {}
                     THEN removeFood(food, CHOOSE p \in pellet : TRUE)
                     ELSE food
         IN \E added \in refillFood(ate, kept, numFood) :
              /\ snake' = ate
              /\ food' = kept \o added
              /\ last' = [op |-> "tick", key |-> Null,
                          nextDir |-> snake.nextDir,
                          tick |-> [isDead |-> FALSE,
                                    pellet |-> pellet,
                                    kept |-> kept,
                                    added |-> added,
                                    bored |-> isBored(snake),
                                    growBy |-> moved.growBy]]
              /\ intervals' =
                    IF checkCrashIntoWall(ate) \/ checkCrashIntoSelf(ate)
                    THEN clearInterval(intervals, timerId)
                    ELSE intervals
    /\ UNCHANGED <<numFood, timerId, listeners, keys>>

(* Game.tick when not isDead: move, eat, remove the eaten pellet, refill. *)
advance ==
    /\ moves > 0
    /\ moves' = moves - 1
    /\ \E r \in RandomMoveDraws(snake) :
       \E g \in RandomGrowthDraws(move(snake, r), food) :
         LET moved == move(snake, r)
             pellet == findPellet(moved, food)
             ate == eats(moved, food, g)
             kept == IF pellet # {}
                     THEN removeFood(food, CHOOSE p \in pellet : TRUE)
                     ELSE food
         IN \E added \in refillFood(ate, kept, numFood) :
              /\ snake' = ate
              /\ food' = kept \o added
              /\ last' = [op |-> "tick", key |-> Null,
                          nextDir |-> snake.nextDir,
                          tick |-> [isDead |-> FALSE,
                                    pellet |-> pellet,
                                    kept |-> kept,
                                    added |-> added,
                                    bored |-> isBored(snake),
                                    growBy |-> moved.growBy]]
    /\ UNCHANGED <<numFood, timerId, intervals, listeners, keys>>

(* Game.tick, run by the interval timer while it is scheduled. *)
tick ==
    /\ timerId \in intervals
    /\ IF checkCrashIntoWall(snake) \/ checkCrashIntoSelf(snake)
       THEN endGame
       ELSE advance

Next ==
    \/ start
    \/ \E key \in Keys : keyListener(key)
    \/ tick

Spec == Init /\ [][Next]_vars

(* A base snake constructed at any cell of the grid, of its boundary ring  *)
(* or of the margin around it, run for Probe moves: the specification the  *)
(* claims about Point.isOutOfBound are checked under.                      *)
InitAnywhere ==
    /\ \E x \in (0 - Margin)..(WIDTH + Margin),
          y \in (0 - Margin)..(HEIGHT + Margin) :
           snake = NewSnake("Snake", Point(x, y), "right")
    /\ moves = Probe
    /\ keys = 1
    /\ food = <<>>
    /\ numFood = defaultNumFood
    /\ timerId = Null
    /\ intervals = {}
    /\ listeners = {}
    /\ last = [op |-> "new", key |-> Null, nextDir |-> Null, tick |-> NoTick]

SpecAnywhere == InitAnywhere /\ [][Next]_vars

(* A base snake constructed in the interior, heading for a wall at most    *)
(* Reach moves away, in a game that gets no key event.  The script calls   *)
(* start at once and setInterval then runs tick every GAME_DELAY_MS until  *)
(* the interval is cleared: start and tick are weakly fair.                *)
MovesToWall(x, y, dir) ==
    IF dir = "left" THEN x
    ELSE IF dir = "right" THEN WIDTH - x
    ELSE IF dir = "up" THEN y
    ELSE HEIGHT - y

InitStraight ==
    /\ \E x \in 1..(WIDTH - 1), y \in 1..(HEIGHT - 1), dir \in Dirs :
           /\ MovesToWall(x, y, dir) <= Reach
           /\ snake = NewSnake("Snake", Point(x, y), dir)
    /\ moves = Reach
    /\ keys = 0
    /\ food = <<>>
    /\ numFood = defaultNumFood
    /\ timerId = Null
    /\ intervals = {}
    /\ listeners = {}
    /\ last = [op |-> "new", key |-> Null, nextDir |-> Null, tick |-> NoTick]

NextStraight ==
    \/ start
    \/ tick

SpecStraight ==
    InitStraight /\ [][NextStraight]_vars /\ WF_vars(start) /\ WF_vars(tick)

(***************************************************************************)
(* Vocabulary of the properties                                            *)
(***************************************************************************)
Opposite(d) ==
    IF d = "left" THEN "right"
    ELSE IF d = "right" THEN "left"
    ELSE IF d = "up" THEN "down"
    ELSE "up"

Perpendicular(d, e) ==
    /\ d \in Dirs
    /\ e \in Dirs
    /\ e # d
    /\ e # Opposite(d)

(* The direction a key asks for; Undefined for a key outside the keymap *)
Requested(key) == IF key \in DOMAIN keymap THEN keymap[key] ELSE Undefined

(* Cell p is a cell of the body, by coordinates *)
OnBody(parts, p) == \E i \in DOMAIN parts : parts[i] = p

Started == timerId # Null
Stopped == Started /\ timerId \notin intervals

(* The step just taken was a tick that moved the snake / ended the game /  *)
(* a key event                                                             *)
Moved == last.op = "tick" /\ ~last.tick.isDead
Died == last.op = "tick" /\ last.tick.isDead
Keyed == last.op = "keyListener"

(***************************************************************************)
(* C1: no pellet that refillFood pushed in a tick lies on a cell of the    *)
(* snake's body as it was when the pellet was pushed (the body after that  *)
(* tick's move).                                                           *)
(***************************************************************************)
C1_RefillAvoidsSnake ==
    Moved => \A i \in DOMAIN last.tick.added :
                 ~OnBody(snake.parts, last.tick.added[i].pt)

(***************************************************************************)
(* C2: with a turn accepted since the last move (nextDir differs from      *)
(* dir), a key asking for the opposite of the pending turn leaves nextDir  *)
(* as it was.                                                              *)
(***************************************************************************)
C2_SecondTurnRejected ==
    [][\A key \in Keys :
         (/\ keyListener(key)
          /\ snake.nextDir # snake.dir
          /\ Requested(key) = Opposite(snake.nextDir))
         => snake'.nextDir = snake.nextDir]_vars

(* C2 as amended: that key is accepted, since the request is compared with *)
(* dir, which no key changes: nextDir becomes the opposite turn.           *)
C2_SecondTurnAccepted ==
    [][\A key \in Keys :
         (/\ keyListener(key)
          /\ snake.nextDir # snake.dir
          /\ Requested(key) = Opposite(snake.nextDir))
         => /\ snake'.nextDir = Requested(key)
            /\ snake'.nextDir # snake.nextDir
            /\ snake'.dir = snake.dir]_vars

C2_Witness ==
    /\ Keyed
    /\ last.nextDir # snake.dir
    /\ Requested(last.key) = Opposite(last.nextDir)
    /\ snake.nextDir = Opposite(last.nextDir)

(***************************************************************************)
(* C3: a key event sets nextDir to the requested direction when that is    *)
(* perpendicular to dir, and leaves nextDir unchanged when the request is  *)
(* dir itself, the reverse of dir, or the key is not in the keymap.        *)
(***************************************************************************)
C3_OnlyPerpendicularAccepted ==
    [][\A key \in Keys :
         keyListener(key) =>
           /\ Perpendicular(snake.dir, Requested(key))
                => snake'.nextDir = Requested(key)
           /\ (\/ Requested(key) = snake.dir
               \/ Requested(key) = Opposite(snake.dir)
               \/ key \notin DOMAIN keymap)
                => snake'.nextDir = snake.nextDir]_vars

(* A reversal was asked for while a turn was pending, and was ignored *)
C3_Witness ==
    /\ Keyed
    /\ Requested(last.key) = Opposite(snake.dir)
    /\ last.nextDir # snake.dir
    /\ snake.nextDir = last.nextDir

(***************************************************************************)
(* C4: a key event changes nothing of the snake but nextDir and leaves     *)
(* the food alone; dir changes only in a move, which makes it the pending  *)
(* heading: dir = nextDir after the move, and that is the nextDir of       *)
(* before the move unless randomMove replaced it.                          *)
(***************************************************************************)
C4_KeyOnlySetsNextDir ==
    [][/\ (\E key \in Keys : keyListener(key))
            => /\ snake' = [snake EXCEPT !.nextDir = snake'.nextDir]
               /\ food' = food
       /\ Moved' => /\ snake'.dir = snake'.nextDir
                    /\ ~last'.tick.bored => snake'.dir = snake.nextDir
       /\ ~Moved' => snake'.dir = snake.dir]_vars

(* A turn is pending: the key was accepted and dir is still the old one *)
C4_Witness ==
    /\ Keyed
    /\ snake.nextDir = Requested(last.key)
    /\ snake.nextDir # snake.dir
    /\ Len(snake.parts) > 1

(***************************************************************************)
(* C5: a move keeps the length of the body and leaves growBy 0 when growBy *)
(* was 0, and lengthens the body by one and takes one off growBy when      *)
(* growBy was positive; the new head is the old head moved one cell in the *)
(* resolved heading and the other segments are the old body in order.      *)
(* (last.tick.growBy is growBy as move() left it, before eats.)            *)
(***************************************************************************)
Offset(p, d) ==
    [x |-> p.x + (IF d = "right" THEN 1 ELSE IF d = "left" THEN -1 ELSE 0),
     y |-> p.y + (IF d = "down" THEN 1 ELSE IF d = "up" THEN -1 ELSE 0)]

C5_MoveGrowsByDebt ==
    [][Moved' =>
        /\ snake.growBy = 0
             => /\ Len(snake'.parts) = Len(snake.parts)
                /\ last'.tick.growBy = 0
        /\ snake.growBy > 0
             => /\ Len(snake'.parts) = Len(snake.parts) + 1
                /\ last'.tick.growBy = snake.growBy - 1
        /\ snake'.parts[1] = Offset(snake.parts[1], snake'.dir)
        /\ \A i \in 2..Len(snake'.parts) :
               snake'.parts[i] = snake.parts[i - 1]]_vars

(* A move that grew the body, after one that did, and a turn on the way *)
C5_Witness ==
    /\ Moved
    /\ Len(snake.parts) = 3
    /\ last.tick.growBy = 0
    /\ snake.parts[1].y # snake.parts[3].y

(***************************************************************************)
(* C6: a tick whose crash check is true stops the game, and a stopped game *)
(* stays stopped: no tick runs any more, and parts, dir, growBy and the    *)
(* food never change again.                                                *)
(***************************************************************************)
C6_CrashStopsForGood ==
    [][/\ Died' => /\ checkCrashIntoWall(snake) \/ checkCrashIntoSelf(snake)
                   /\ Stopped'
                   /\ snake' = snake
                   /\ food' = food
       /\ (checkCrashIntoWall(snake) \/ checkCrashIntoSelf(snake))
            => ~Moved'
       /\ Stopped => /\ Stopped'
                     /\ ~(last'.op = "tick")
                     /\ moves' = moves
                     /\ snake'.parts = snake.parts
                     /\ snake'.dir = snake.dir
                     /\ snake'.growBy = snake.growBy
                     /\ food' = food]_vars

(* The game was stopped by a wall, and a key event came after that *)
C6_Witness ==
    /\ Stopped
    /\ Keyed
    /\ checkCrashIntoWall(snake)

(***************************************************************************)
(* C7: once the game is stopped no key event reaches the snake: nextDir    *)
(* does not change any more.                                               *)
(***************************************************************************)
C7_NoInputAfterStop ==
    [][Stopped => snake'.nextDir = snake.nextDir]_vars

(***************************************************************************)
(* C8: pastMoves of an ImpatientSnake never holds 9 equal headings in a    *)
(* row: after 8 equal headings the next is perpendicular to them.          *)
(***************************************************************************)
C8_NoNinthSameMove ==
    snake.class = "ImpatientSnake" =>
        \A i \in 1..(Len(snake.pastMoves) - sameMoves) :
            \E j \in i..(i + sameMoves) :
                snake.pastMoves[j] # snake.pastMoves[i]

(***************************************************************************)
(* C9: when a tick finds a pellet at the head, removeFood removes that     *)
(* pellet only: every pellet of the food at another position is still in   *)
(* the food when refillFood starts (last.tick.kept).                       *)
(***************************************************************************)
C9_RemoveOnlyEaten ==
    [][(Moved' /\ last'.tick.pellet # {}) =>
         \A i \in DOMAIN food :
            (\A p \in last'.tick.pellet : food[i].pt # p.pt)
              => \E j \in DOMAIN last'.tick.kept :
                     last'.tick.kept[j] = food[i]]_vars

(***************************************************************************)
(* C10: isOutOfBound is true exactly when x <= 0 or x >= WIDTH or y <= 0   *)
(* or y >= HEIGHT: true on the ring x, y = 0 or the dimension, false for   *)
(* 1 <= x <= WIDTH-1 and 1 <= y <= HEIGHT-1.  Checked on the head of a     *)
(* snake placed anywhere (SpecAnywhere), and on what the tick did with it. *)
(***************************************************************************)
Interior(p) == p.x \in 1..(WIDTH - 1) /\ p.y \in 1..(HEIGHT - 1)

C10_OutOfBoundIsRingAndBeyond ==
    LET p == head(snake)
    IN /\ isOutOfBound(p) <=>
             (p.x <= 0 \/ p.x >= WIDTH \/ p.y <= 0 \/ p.y >= HEIGHT)
       /\ (p.x \in {0, WIDTH} \/ p.y \in {0, HEIGHT}) => isOutOfBound(p)
       /\ Interior(p) => ~isOutOfBound(p)
       /\ (Died /\ Len(snake.parts) = 1) => ~Interior(p)
       /\ (Started /\ ~Stopped /\ moves = 0 /\ Len(snake.parts) = 1)
            => Interior(Offset(p, Opposite(snake.dir)))

(* A snake placed on the ring at x = 0, inside in y, was stopped *)
C10_Witness ==
    /\ Died
    /\ head(snake).x = 0
    /\ head(snake).y \in 1..(HEIGHT - 1)

(***************************************************************************)
(* C11: the body always has at least one segment and growBy is a natural   *)
(* number, for every class of snake.                                       *)
(***************************************************************************)
C11_BodyAndDebtInRange ==
    /\ Len(snake.parts) >= 1
    /\ snake.growBy \in Nat

(* A move with growBy 0 dropped the tail of a one-segment body *)
C11_Witness ==
    /\ Moved
    /\ last.tick.growBy = 0
    /\ last.tick.pellet = {}
    /\ Len(snake.parts) = 1
    /\ snake.growBy = 0

(***************************************************************************)
(* C12: after every tick that moved the snake (every tick that did not end *)
(* the game) the food holds numFood pellets, and it still does until the   *)
(* next tick.                                                              *)
(***************************************************************************)
MovedOnce == \E c \in Configs : c[1] = snake.class /\ moves < c[4]

C12_FoodRefilled ==
    (Moved \/ (Keyed /\ MovedOnce)) => Len(food) = numFood

(* A pellet was eaten, removeFood left fewer than numFood, refillFood      *)
(* pushed the rest                                                         *)
C12_Witness ==
    /\ Moved
    /\ last.tick.pellet # {}
    /\ Len(last.tick.kept) < numFood
    /\ Len(last.tick.added) = numFood - Len(last.tick.kept)
    /\ Len(food) = numFood

(***************************************************************************)
(* C13: a tick checks for the crash before it moves: a move that puts the  *)
(* head out of bounds or on the body is applied in full in its own tick    *)
(* (body moved, food refilled, timer still scheduled), and the game is     *)
(* stopped by the next tick, which moves nothing.                          *)
(***************************************************************************)
Crashed(s) ==
    \/ ~Interior(head(s))
    \/ \E i \in 2..Len(s.parts) : s.parts[i] = head(s)

C13_CrashSeenByNextTick ==
    [][/\ Moved' => /\ ~Crashed(snake)
                    /\ ~Stopped'
                    /\ timerId' \in intervals'
                    /\ head(snake') = Offset(head(snake), snake'.dir)
                    /\ Len(food') = numFood
       /\ Died' => /\ Crashed(snake)
                   /\ snake' = snake
                   /\ ~Stopped
                   /\ Stopped'
       /\ (Crashed(snake) /\ last'.op = "tick") => Died']_vars

(* The fatal move has been made and the game is not stopped yet *)
C13_Witness ==
    /\ Moved
    /\ Crashed(snake)
    /\ ~Stopped
    /\ Len(food) = numFood

(***************************************************************************)
(* C14: for the base Snake, eats adds exactly 2 to growBy when a pellet of *)
(* the food is at the head, and that pellet is what it returns; with no    *)
(* pellet at the head it returns none and growBy stays.  eats changes      *)
(* nothing else: parts, dir and nextDir are as move() left them.           *)
(***************************************************************************)
C14_EatsAddsTwo ==
    [][(Moved' /\ snake.class = "Snake") =>
        LET pellet == last'.tick.pellet
            atHead == {i \in DOMAIN food : food[i].pt = head(snake')}
        IN /\ atHead # {} =>
                /\ \E i \in atHead : pellet = {food[i]}
                /\ snake'.growBy = last'.tick.growBy + 2
           /\ atHead = {} =>
                /\ pellet = {}
                /\ snake'.growBy = last'.tick.growBy
           /\ snake' = [move(snake, 1) EXCEPT !.growBy = snake'.growBy]]_vars

(* The base snake ate a pellet while it was still growing *)
C14_Witness ==
    /\ Moved
    /\ snake.class = "Snake"
    /\ last.tick.pellet # {}
    /\ last.tick.growBy = 1
    /\ snake.growBy = 3

(***************************************************************************)
(* C15: for the base Snake, while the game is not stopped, the segments    *)
(* behind the head are on distinct cells; the head is on the cell of at    *)
(* most one of them, checkCrashIntoSelf sees it when it is, and the next   *)
(* tick then stops the game.                                               *)
(***************************************************************************)
HeadOverlaps(s) == {j \in 2..Len(s.parts) : s.parts[j] = s.parts[1]}

TailDistinct(s) ==
    \A i \in 2..Len(s.parts) : \A j \in 2..Len(s.parts) :
        i # j => s.parts[i] # s.parts[j]

BodyDistinct ==
    (snake.class = "Snake" /\ ~Stopped) =>
        /\ TailDistinct(snake)
        /\ Cardinality(HeadOverlaps(snake)) <= 1
        /\ HeadOverlaps(snake) # {} <=> checkCrashIntoSelf(snake)

C15_BodyCellsDistinct ==
    [][/\ BodyDistinct
       /\ BodyDistinct'
       /\ (snake.class = "Snake" /\ HeadOverlaps(snake) # {}
             /\ last'.op = "tick")
            => Died' /\ Stopped']_vars

(* The base snake ran into its own body and the next tick stopped the game *)
C15_Witness ==
    /\ snake.class = "Snake"
    /\ Died
    /\ Stopped
    /\ HeadOverlaps(snake) # {}
    /\ TailDistinct(snake)

(***************************************************************************)
(* C16: pastMoves of an ImpatientSnake holds one entry for each advance    *)
(* made, and randomMove is called only when at least sameMoves advances    *)
(* have been made and the last sameMoves headings are equal; a snake that  *)
(* got no key makes its first 8 advances in its first heading.             *)
(***************************************************************************)
Advances == LongGame - moves

C16_HistoryIsTheAdvances ==
    (snake.class = "ImpatientSnake" /\ Moved) =>
        /\ Len(snake.pastMoves) = Advances
        /\ last.tick.bored => Advances - 1 >= sameMoves
        /\ (keys = FewKeys /\ Advances <= sameMoves)
             => /\ ~last.tick.bored
                /\ snake.dir = snake.pastMoves[1]

(***************************************************************************)
(* C17: dir and nextDir are always one of left, right, up, down, for every *)
(* class of snake, also after randomMove.                                  *)
(***************************************************************************)
C17_HeadingsCardinal ==
    /\ snake.dir \in Dirs
    /\ snake.nextDir \in Dirs

(* randomMove replaced a pending up or down *)
C17_Witness ==
    /\ Moved
    /\ last.tick.bored
    /\ last.nextDir \in {"up", "down"}
    /\ snake.dir \in {"left", "right"}

(***************************************************************************)
(* C18: for the base Snake (and RandomGrowthSnake, which resolves its      *)
(* heading the same way) nextDir is dir or perpendicular to dir; so a move *)
(* never reverses the heading and the new head is never the cell of the    *)
(* segment behind the old head.                                            *)
(***************************************************************************)
C18_NoReversal ==
    [][snake.class # "ImpatientSnake" =>
        /\ snake.nextDir = snake.dir \/ Perpendicular(snake.dir, snake.nextDir)
        /\ snake'.nextDir = snake'.dir
             \/ Perpendicular(snake'.dir, snake'.nextDir)
        /\ Moved' =>
             /\ snake'.dir # Opposite(snake.dir)
             /\ Len(snake.parts) >= 2 => head(snake') # snake.parts[2]]_vars

(* The base snake, two segments or more, turned after two keys that asked  *)
(* for opposite turns                                                      *)
C18_Witness ==
    /\ Moved
    /\ snake.class = "Snake"
    /\ Len(snake.parts) >= 3
    /\ snake.parts[1].y # snake.parts[2].y
    /\ snake.parts[2].x # snake.parts[3].x

(***************************************************************************)
(* C19: the heading an ImpatientSnake resolves in a move is never the      *)
(* reverse of the heading of its previous move.                            *)
(***************************************************************************)
C19_ImpatientNoReversal ==
    [][(snake.class = "ImpatientSnake" /\ Moved')
         => snake'.dir # Opposite(snake.dir)]_vars

(***************************************************************************)
(* C20: a base Snake that starts in the interior and gets no key event,    *)
(* with start and tick weakly fair, is eventually stopped, its head out of *)
(* the interior and its heading the one it was constructed with.           *)
(***************************************************************************)
C20_StraightRunStops ==
    <>(Stopped /\ Died /\ ~Interior(head(snake)) /\ snake.dir = snake.nextDir)

(* The straight run ended at the wall without a key event *)
C20_Witness ==
    /\ Stopped
    /\ Died
    /\ head(snake).x = WIDTH
    /\ snake.dir = "right"
    /\ moves = 0

====
